---- MODULE Spec2Model ----
(***************************************************************************)
(* The one-time-password guard of server/routes.ts, with the clock read by  *)
(* Date.now() and the SMS providers as inputs.  routes.ts registers POST    *)
(* /api/send-otp and POST /api/verify-otp twice.  Spec is the program as    *)
(* Express runs it: every request goes to the first registered handlers,    *)
(* which keep the otpStore map.  SpecLocals is the second pair of handlers, *)
(* which keep app.locals.otpStorage, run in their place, their cleanup      *)
(* timers never firing; SpecTimers lets the timers fire.  SpecCandidates is *)
(* the candidate routes (create, update, delete) on the in-memory storage   *)
(* of server/storage.ts.                                                    *)
(***************************************************************************)
EXTENDS Integers, Sequences, FiniteSets

VARIABLES
    now,        \* the value Date.now() returns, in milliseconds
    otpStore,   \* the Map of routes.ts:61, as its set of [key, value] entries
    locals,     \* app.locals, as its set of [key, value] entries
    timers,     \* the pending setTimeout callbacks of routes.ts:349-351
    req,        \* the request handled by the step just taken (NoRequest: none)
    res,        \* the response that handler sent
    watched,    \* the phone number whose history is recorded, any of ValidPhones
    hist,       \* what was issued to the watched number and verified since
    candidates, \* MemStorage.candidates, as its set of [key, value] entries
    currentId,  \* MemStorage.currentId
    pending,    \* the requests whose handler is suspended at an await
    activeStorage  \* activeStorage of routes.ts:10: "MemStorage" or "MongoStorage"

vars == <<now, otpStore, locals, timers, req, res, watched, hist, candidates, currentId,
          pending, activeStorage>>

\* the fields of the MemStorage instance
storage == <<candidates, currentId>>

----------------------------------------------------------------------------
(* Bounds of the model *)

\* the clock stops advancing past this value
MaxNow == 300001

\* the verify calls since the last issue are counted up to this number
MaxCalls == 4

\* Math.random() returns n / RandomScale for some n in 0 .. RandomScale - 1
RandomScale == 10000

\* the draws of the random source that are explored: the least and the greatest
RandomDraws == {0, RandomScale - 1}

\* the 5 minutes the claims speak of, in milliseconds
FiveMinutes == 5 * 60 * 1000

\* the amounts by which the clock advances between two requests: 5 minutes, and
\* one millisecond more
ClockSteps == {FiveMinutes, FiveMinutes + 1}

\* phoneNumber values of request bodies: two 10-digit numbers, a missing one
\* and, for send-otp, one that is too short
ValidPhones == {"9876543210", "9123456780"}
SendPhoneInputs == ValidPhones \cup {"", "12345"}
VerifyPhoneInputs == ValidPhones \cup {""}

----------------------------------------------------------------------------
(* JavaScript values *)

\* !x for the strings a request body carries: only the missing/empty one is falsy
Falsy(x) == x = ""

DigitChar == <<"0", "1", "2", "3", "4", "5", "6", "7", "8", "9">>

\* Number.prototype.toString for a non-negative integer
RECURSIVE ToString(_)
ToString(n) ==
    IF n < 10 THEN DigitChar[n + 1]
    ELSE ToString(n \div 10) \o DigitChar[(n % 10) + 1]

\* Map.prototype.has / get / set / delete on a set of entries
MapHas(m, k) == \E e \in m : e.key = k

MapGet(m, k) == (CHOOSE e \in m : e.key = k).value

MapSet(m, k, v) == {e \in m : e.key # k} \cup {[key |-> k, value |-> v]}

\* a slip: Map.prototype.clear in the place of delete
MapClear(m, k) == {}

MapDelete(m, k) == {e \in m : e.key # k}

----------------------------------------------------------------------------
(* Program constants *)

\* 5 * 60 * 1000 of routes.ts:170
MaxAge == 5 * 60 * 1000

\* the attempt limit of routes.ts:177 and routes.ts:191
MaxAttempts == 3

----------------------------------------------------------------------------
(* POST /api/send-otp, routes.ts:64-152 *)

\* a slip: the offset 1000 left out, Math.floor(Math.random() * 10000)
GenerateOtpNoOffset(n) == ToString((n * 10000) \div RandomScale)

\* Math.floor(1000 + Math.random() * 9000).toString(), the draw being n / RandomScale
GenerateOtp(n) == ToString(1000 + ((n * 9000) \div RandomScale))

\* the object stored at routes.ts:76-80
NewOtpData(otp, t) == [otp |-> otp, timestamp |-> t, attempts |-> 0]

\* a slip: only the missing phone number is refused
InvalidPhoneMissingOnly(phoneNumber) == Falsy(phoneNumber)

\* phoneNumber check of routes.ts:68
InvalidPhone(phoneNumber) == Falsy(phoneNumber) \/ Len(phoneNumber) # 10

\* smsResult of routes.ts:83-143. twilioEnv: the three TWILIO_ variables are
\* set; twilioOk: messages.create resolved; textbelt: "success", "failure"
\* (success: false in the JSON) or "throws" (fetch or json() rejected)
SmsResult(otp, twilioEnv, twilioOk, textbelt) ==
    IF twilioEnv /\ twilioOk
    THEN [success |-> TRUE, message |-> "OTP sent via Twilio SMS", provider |-> "Twilio"]
    ELSE IF textbelt = "success"
    THEN [success |-> TRUE, message |-> "OTP sent via Textbelt SMS (Free service)",
          provider |-> "Textbelt", quotaRemaining |-> 1]
    ELSE [success |-> TRUE, message |-> "Demo Mode: OTP sent successfully",
          provider |-> "Demo", demoOtp |-> otp]

\* the history right after an issue. first: the code of the issue before, when
\* no verify call came between the two
Issued(h, otp, t) ==
    [otp    |-> otp,
     at     |-> t,
     first  |-> IF h.otp # "" /\ h.streak = 0 THEN h.otp ELSE "",
     streak |-> 0,
     wrong  |-> 0]

\* a slip: a number that still has a record keeps it
SendStoreKeepsLive(store, t, phoneNumber, otp) ==
    IF InvalidPhone(phoneNumber) \/ MapHas(store, phoneNumber) THEN store
    ELSE MapSet(store, phoneNumber, NewOtpData(otp, t))

\* a slip: the new code is merged into the record the number already has
SendStoreMerges(store, t, phoneNumber, otp) ==
    IF InvalidPhone(phoneNumber) THEN store
    ELSE IF MapHas(store, phoneNumber)
    THEN MapSet(store, phoneNumber, [MapGet(store, phoneNumber) EXCEPT !.otp = otp])
    ELSE MapSet(store, phoneNumber, NewOtpData(otp, t))

\* the store after the handler: the return of routes.ts:69 or the set of
\* routes.ts:76-80
SendStore(store, t, phoneNumber, otp) ==
    IF InvalidPhone(phoneNumber) THEN store
    ELSE MapSet(store, phoneNumber, NewOtpData(otp, t))

\* a slip: no try around the Textbelt request, so that a rejected fetch reaches
\* the catch block of routes.ts:148-151
SendResponseUncaught(phoneNumber, otp, twilioEnv, twilioOk, textbelt) ==
    IF InvalidPhone(phoneNumber)
    THEN [status |-> 400, body |-> [error |-> "Valid 10-digit phone number required"]]
    ELSE IF ~(twilioEnv /\ twilioOk) /\ textbelt = "throws"
    THEN [status |-> 500, body |-> [error |-> "Failed to send OTP"]]
    ELSE [status |-> 200, body |-> SmsResult(otp, twilioEnv, twilioOk, textbelt)]

\* the response of the handler, routes.ts:69 or routes.ts:146
SendResponse(phoneNumber, otp, twilioEnv, twilioOk, textbelt) ==
    IF InvalidPhone(phoneNumber)
    THEN [status |-> 400, body |-> [error |-> "Valid 10-digit phone number required"]]
    ELSE [status |-> 200, body |-> SmsResult(otp, twilioEnv, twilioOk, textbelt)]

SendOtp(phoneNumber, n, twilioEnv, twilioOk, textbelt) ==
    LET otp == GenerateOtp(n) IN
    /\ req' = [op |-> "send-otp", phoneNumber |-> phoneNumber, otp |-> ""]
    /\ otpStore' = SendStore(otpStore, now, phoneNumber, otp)
    /\ res' = SendResponse(phoneNumber, otp, twilioEnv, twilioOk, textbelt)
    /\ hist' = IF phoneNumber = watched /\ ~InvalidPhone(phoneNumber)
               THEN Issued(hist, otp, now)
               ELSE hist
    /\ UNCHANGED <<now, locals, timers, watched, storage, pending, activeStorage>>

----------------------------------------------------------------------------
(* POST /api/verify-otp, routes.ts:155-198 *)

\* isExpired of routes.ts:170
IsExpired(storedData, t) == t - storedData.timestamp > MaxAge

\* a slip: > in the place of >=
AttemptsExceededStrict(storedData) == storedData.attempts > MaxAttempts

\* the attempts check of routes.ts:177
AttemptsExceeded(storedData) == storedData.attempts >= MaxAttempts

\* storedData.otp === otp of routes.ts:183
OtpMatches(storedData, otp) == storedData.otp = otp

\* a slip: the failed attempt is not counted
FailedAttemptNotCounted(storedData) == storedData

\* storedData after routes.ts:187
FailedAttempt(storedData) == [storedData EXCEPT !.attempts = @ + 1]

\* a slip: attemptsLeft read before the increment
AttemptsLeftBeforeIncrement(storedData) == MaxAttempts - storedData.attempts

\* attemptsLeft of routes.ts:191, read after the increment of routes.ts:187
AttemptsLeft(storedData) == MaxAttempts - FailedAttempt(storedData).attempts

\* a slip: the attempts check moved before the expiry check
VerifyBranchAttemptsFirst(store, t, phoneNumber, otp) ==
    IF Falsy(phoneNumber) \/ Falsy(otp) THEN "invalid"
    ELSE IF ~MapHas(store, phoneNumber) THEN "none"
    ELSE LET storedData == MapGet(store, phoneNumber) IN
         IF AttemptsExceeded(storedData) THEN "exceeded"
         ELSE IF IsExpired(storedData, t) THEN "expired"
         ELSE IF OtpMatches(storedData, otp) THEN "match"
         ELSE "mismatch"

\* a slip: the code compared before the attempts are checked
VerifyBranchMatchFirst(store, t, phoneNumber, otp) ==
    IF Falsy(phoneNumber) \/ Falsy(otp) THEN "invalid"
    ELSE IF ~MapHas(store, phoneNumber) THEN "none"
    ELSE LET storedData == MapGet(store, phoneNumber) IN
         IF IsExpired(storedData, t) THEN "expired"
         ELSE IF OtpMatches(storedData, otp) THEN "match"
         ELSE IF AttemptsExceeded(storedData) THEN "exceeded"
         ELSE "mismatch"

\* a slip: no check that the map holds a record, so that reading
\* storedData.timestamp throws
VerifyBranchNoGuard(store, t, phoneNumber, otp) ==
    IF Falsy(phoneNumber) \/ Falsy(otp) THEN "invalid"
    ELSE IF ~MapHas(store, phoneNumber) THEN "throws"
    ELSE LET storedData == MapGet(store, phoneNumber) IN
         IF IsExpired(storedData, t) THEN "expired"
         ELSE IF AttemptsExceeded(storedData) THEN "exceeded"
         ELSE IF OtpMatches(storedData, otp) THEN "match"
         ELSE "mismatch"

\* the way the handler takes through routes.ts:159-193: "invalid" (400 at 160),
\* "none" (no record, 166), "expired" (171-173), "exceeded" (177-179),
\* "match" (183-185) or "mismatch" (186-192)
VerifyBranch(store, t, phoneNumber, otp) ==
    IF Falsy(phoneNumber) \/ Falsy(otp) THEN "invalid"
    ELSE IF ~MapHas(store, phoneNumber) THEN "none"
    ELSE LET storedData == MapGet(store, phoneNumber) IN
         IF IsExpired(storedData, t) THEN "expired"
         ELSE IF AttemptsExceeded(storedData) THEN "exceeded"
         ELSE IF OtpMatches(storedData, otp) THEN "match"
         ELSE "mismatch"

\* a slip: the attempt counted before the expiry check
StoredDataAfterCountsFirst(store, t, phoneNumber, otp) ==
    IF VerifyBranch(store, t, phoneNumber, otp) \in {"expired", "mismatch"}
    THEN FailedAttempt(MapGet(store, phoneNumber))
    ELSE MapGet(store, phoneNumber)

\* the object storedData of routes.ts:163 as the handler leaves it, for a phone
\* number that has a record: only routes.ts:187 assigns to it
StoredDataAfter(store, t, phoneNumber, otp) ==
    IF VerifyBranch(store, t, phoneNumber, otp) = "mismatch"
    THEN FailedAttempt(MapGet(store, phoneNumber))
    ELSE MapGet(store, phoneNumber)

\* a slip: the record is kept after a successful verification
VerifyStoreKeepsVerified(store, t, phoneNumber, otp) ==
    LET branch == VerifyBranch(store, t, phoneNumber, otp) IN
    IF branch \in {"expired", "exceeded"} THEN MapDelete(store, phoneNumber)
    ELSE IF branch = "mismatch"
    THEN MapSet(store, phoneNumber, FailedAttempt(MapGet(store, phoneNumber)))
    ELSE store

\* a slip: the record is kept when the attempts are found exceeded
VerifyStoreKeepsExceeded(store, t, phoneNumber, otp) ==
    LET branch == VerifyBranch(store, t, phoneNumber, otp) IN
    IF branch \in {"expired", "match"} THEN MapDelete(store, phoneNumber)
    ELSE IF branch = "mismatch"
    THEN MapSet(store, phoneNumber, FailedAttempt(MapGet(store, phoneNumber)))
    ELSE store

\* a slip: a failed attempt is also counted for a number that has no record
VerifyStoreCountsUnknown(store, t, phoneNumber, otp) ==
    LET branch == VerifyBranch(store, t, phoneNumber, otp) IN
    IF branch \in {"expired", "exceeded", "match"} THEN MapDelete(store, phoneNumber)
    ELSE IF branch = "mismatch"
    THEN MapSet(store, phoneNumber, StoredDataAfter(store, t, phoneNumber, otp))
    ELSE IF branch = "none"
    THEN MapSet(store, phoneNumber, FailedAttempt(NewOtpData("", t)))
    ELSE store

\* a slip: a failed attempt also restarts the 5 minutes of the record
VerifyStoreRefreshes(store, t, phoneNumber, otp) ==
    LET branch == VerifyBranch(store, t, phoneNumber, otp) IN
    IF branch \in {"expired", "exceeded", "match"} THEN MapDelete(store, phoneNumber)
    ELSE IF branch = "mismatch"
    THEN MapSet(store, phoneNumber,
                [StoredDataAfter(store, t, phoneNumber, otp) EXCEPT !.timestamp = t])
    ELSE store

\* the store after the handler: the delete calls of routes.ts:172, 178 and 184
\* and the set of routes.ts:188
VerifyStore(store, t, phoneNumber, otp) ==
    LET branch == VerifyBranch(store, t, phoneNumber, otp) IN
    IF branch \in {"expired", "exceeded", "match"} THEN MapDelete(store, phoneNumber)
    ELSE IF branch = "mismatch"
    THEN MapSet(store, phoneNumber, StoredDataAfter(store, t, phoneNumber, otp))
    ELSE store

\* the response of the handler; "throws" is the catch block of routes.ts:194-197
VerifyResponse(store, t, phoneNumber, otp) ==
    LET branch == VerifyBranch(store, t, phoneNumber, otp) IN
    CASE branch = "invalid" ->
            [status |-> 400, body |-> [error |-> "Phone number and OTP required"]]
      [] branch = "none" ->
            [status |-> 400, body |-> [error |-> "No OTP found for this number"]]
      [] branch = "expired" ->
            [status |-> 400, body |-> [error |-> "OTP has expired"]]
      [] branch = "exceeded" ->
            [status |-> 400,
             body |-> [error |-> "Maximum verification attempts exceeded"]]
      [] branch = "match" ->
            [status |-> 200,
             body |-> [success |-> TRUE, message |-> "OTP verified successfully"]]
      [] branch = "mismatch" ->
            [status |-> 400,
             body |-> [error |-> "Invalid OTP",
                       attemptsLeft |-> AttemptsLeft(MapGet(store, phoneNumber))]]
      [] OTHER ->
            [status |-> 500, body |-> [error |-> "Failed to verify OTP"]]

\* the value of hist.streak once a verify call carried the issued code or came
\* after expiry
Broken == 0 - 1

\* the history right after a verify call made at time t. streak: the number of
\* verify calls since the issue (counted up to MaxCalls) as long as each carried
\* a wrong code and was made before expiry, Broken from the first call that did
\* not; wrong: the number of calls that carried a wrong code, counted up to
\* MaxAttempts
Verified(h, otp, t) ==
    [h EXCEPT !.streak = IF @ = Broken \/ otp = h.otp \/ t - h.at > FiveMinutes THEN Broken
                         ELSE IF @ < MaxCalls THEN @ + 1 ELSE @,
              !.wrong  = IF otp # h.otp /\ @ < MaxAttempts THEN @ + 1 ELSE @]

VerifyOtp(phoneNumber, otp) ==
    /\ req' = [op |-> "verify-otp", phoneNumber |-> phoneNumber, otp |-> otp]
    /\ otpStore' = VerifyStore(otpStore, now, phoneNumber, otp)
    /\ res' = VerifyResponse(otpStore, now, phoneNumber, otp)
    /\ hist' = IF phoneNumber = watched /\ ~Falsy(otp) /\ hist.otp # ""
               THEN Verified(hist, otp, now)
               ELSE hist
    /\ UNCHANGED <<now, locals, timers, watched, storage, pending, activeStorage>>

NoRequest == [op |-> "none", phoneNumber |-> "", otp |-> ""]

NoResponse == [status |-> 0, body |-> [none |-> TRUE]]

NoHistory == [otp |-> "", at |-> 0, first |-> "", streak |-> 0, wrong |-> 0]

----------------------------------------------------------------------------
(* The second registrations: POST /api/send-otp, routes.ts:323-398, and    *)
(* POST /api/verify-otp, routes.ts:401-454                                 *)

\* app.locals.otpStorage, the empty set of entries standing for a new Map()
OtpStorage(l) == IF MapHas(l, "otpStorage") THEN MapGet(l, "otpStorage") ELSE {}

\* otpData of routes.ts:335-340
NewOtpDataLocals(otp, phoneNumber, t) ==
    [otp |-> otp, phoneNumber |-> phoneNumber, timestamp |-> t, attempts |-> 0]

\* app.locals after routes.ts:327-346
SendLocals(l, t, phoneNumber, otp) ==
    IF Falsy(phoneNumber) THEN l
    ELSE MapSet(l, "otpStorage",
                MapSet(OtpStorage(l), phoneNumber, NewOtpDataLocals(otp, phoneNumber, t)))

\* the timers after routes.ts:349-351; a timer due after MaxNow cannot fire
\* while the clock is within its bound and is not kept
SendTimers(tm, t, phoneNumber) ==
    IF Falsy(phoneNumber) \/ t + MaxAge > MaxNow THEN tm
    ELSE tm \cup {[phoneNumber |-> phoneNumber, due |-> t + MaxAge]}

\* the response of routes.ts:328 or routes.ts:388-392: smsResult.success is true
\* on both ways to routes.ts:388, so demoOtp is always the code
SendResponseLocals(phoneNumber, otp, textbelt) ==
    IF Falsy(phoneNumber)
    THEN [status |-> 400, body |-> [error |-> "Phone number is required"]]
    ELSE [status |-> 200,
          body |-> [success |-> TRUE,
                    message |-> IF textbelt = "success"
                                THEN "OTP sent via Textbelt"
                                ELSE "Demo Mode: Your OTP is " \o otp
                                     \o ". In production, this would be sent via SMS.",
                    demoOtp |-> otp]]

SendOtpLocals(phoneNumber, n, textbelt) ==
    LET otp == GenerateOtp(n) IN
    /\ req' = [op |-> "send-otp", phoneNumber |-> phoneNumber, otp |-> ""]
    /\ locals' = SendLocals(locals, now, phoneNumber, otp)
    /\ timers' = SendTimers(timers, now, phoneNumber)
    /\ res' = SendResponseLocals(phoneNumber, otp, textbelt)
    /\ hist' = IF phoneNumber = watched THEN Issued(hist, otp, now) ELSE hist
    /\ UNCHANGED <<now, otpStore, watched, storage, pending, activeStorage>>

\* otpAge > maxAge of routes.ts:420-424
IsExpiredLocals(otpData, t) == t - otpData.timestamp > 5 * 60 * 1000

\* otpData after routes.ts:430
CountedAttempt(otpData) == [otpData EXCEPT !.attempts = @ + 1]

\* a slip: the counter, already incremented, compared with >= in the place of >
VerifyBranchLocalsNonStrict(l, t, phoneNumber, otp) ==
    IF Falsy(phoneNumber) \/ Falsy(otp) THEN "invalid"
    ELSE IF ~MapHas(l, "otpStorage") THEN "nomap"
    ELSE IF ~MapHas(OtpStorage(l), phoneNumber) THEN "none"
    ELSE LET otpData == MapGet(OtpStorage(l), phoneNumber) IN
         IF IsExpiredLocals(otpData, t) THEN "expired"
         ELSE IF CountedAttempt(otpData).attempts >= 3 THEN "exceeded"
         ELSE IF CountedAttempt(otpData).otp = otp THEN "match"
         ELSE "mismatch"

\* the way the handler takes through routes.ts:405-448: "invalid" (406),
\* "nomap" (411), "none" (416), "expired" (424-426), "exceeded" (433-435),
\* "match" (439-441) or "mismatch" (442-447)
VerifyBranchLocals(l, t, phoneNumber, otp) ==
    IF Falsy(phoneNumber) \/ Falsy(otp) THEN "invalid"
    ELSE IF ~MapHas(l, "otpStorage") THEN "nomap"
    ELSE IF ~MapHas(OtpStorage(l), phoneNumber) THEN "none"
    ELSE LET otpData == MapGet(OtpStorage(l), phoneNumber) IN
         IF IsExpiredLocals(otpData, t) THEN "expired"
         ELSE IF CountedAttempt(otpData).attempts > 3 THEN "exceeded"
         ELSE IF CountedAttempt(otpData).otp = otp THEN "match"
         ELSE "mismatch"

\* the object otpData of routes.ts:414 as the handler leaves it, for a phone
\* number that has a record: routes.ts:430 counts every call that is not expired
OtpDataAfter(l, t, phoneNumber, otp) ==
    IF VerifyBranchLocals(l, t, phoneNumber, otp) \in {"exceeded", "match", "mismatch"}
    THEN CountedAttempt(MapGet(OtpStorage(l), phoneNumber))
    ELSE MapGet(OtpStorage(l), phoneNumber)

\* app.locals after the handler: the delete calls of routes.ts:425, 434 and 440;
\* on a mismatch the object in the map has been incremented in place
VerifyLocals(l, t, phoneNumber, otp) ==
    LET branch == VerifyBranchLocals(l, t, phoneNumber, otp) IN
    IF branch \in {"expired", "exceeded", "match"}
    THEN MapSet(l, "otpStorage", MapDelete(OtpStorage(l), phoneNumber))
    ELSE IF branch = "mismatch"
    THEN MapSet(l, "otpStorage",
                MapSet(OtpStorage(l), phoneNumber, OtpDataAfter(l, t, phoneNumber, otp)))
    ELSE l

\* the response of the handler, routes.ts:406-447
VerifyResponseLocals(l, t, phoneNumber, otp) ==
    LET branch == VerifyBranchLocals(l, t, phoneNumber, otp) IN
    CASE branch = "invalid" ->
            [status |-> 400, body |-> [error |-> "Phone number and OTP are required"]]
      [] branch = "nomap" ->
            [status |-> 400, body |-> [error |-> "No OTP found. Please request a new OTP."]]
      [] branch = "none" ->
            [status |-> 400,
             body |-> [error |-> "OTP not found or expired. Please request a new OTP."]]
      [] branch = "expired" ->
            [status |-> 400,
             body |-> [error |-> "OTP has expired. Please request a new OTP."]]
      [] branch = "exceeded" ->
            [status |-> 400,
             body |-> [error |-> "Maximum attempts exceeded. Please request a new OTP."]]
      [] branch = "match" ->
            [status |-> 200,
             body |-> [success |-> TRUE, message |-> "OTP verified successfully!"]]
      [] branch = "mismatch" ->
            LET attemptsLeft ==
                    3 - CountedAttempt(MapGet(OtpStorage(l), phoneNumber)).attempts IN
            [status |-> 400,
             body |-> [error |-> "Invalid OTP. " \o ToString(attemptsLeft)
                                 \o " attempts remaining.",
                       attemptsLeft |-> attemptsLeft]]

VerifyOtpLocals(phoneNumber, otp) ==
    /\ req' = [op |-> "verify-otp", phoneNumber |-> phoneNumber, otp |-> otp]
    /\ locals' = VerifyLocals(locals, now, phoneNumber, otp)
    /\ res' = VerifyResponseLocals(locals, now, phoneNumber, otp)
    /\ hist' = IF phoneNumber = watched /\ ~Falsy(otp) /\ hist.otp # ""
               THEN Verified(hist, otp, now)
               ELSE hist
    /\ UNCHANGED <<now, otpStore, timers, watched, storage, pending, activeStorage>>

\* the callback of routes.ts:349-351, run once its 5 minutes have passed
TimerFires(timer) ==
    /\ timer \in timers
    /\ now >= timer.due
    /\ timers' = timers \ {timer}
    /\ locals' = IF MapHas(locals, "otpStorage")
                 THEN MapSet(locals, "otpStorage",
                             MapDelete(OtpStorage(locals), timer.phoneNumber))
                 ELSE locals
    /\ req' = NoRequest
    /\ res' = NoResponse
    /\ UNCHANGED <<now, otpStore, watched, hist, storage, pending, activeStorage>>

----------------------------------------------------------------------------
(* The candidate routes, routes.ts:225-300, on MemStorage (server/storage.ts) *)

\* createCandidate hands out ids up to this number
MaxId == 2

\* aadhar values of request bodies
Aadhars == {"123412341234", "432143214321"}

\* the bodies of POST /api/candidates: the required fields with every pair of
\* mobile and aadhar, and bodies in which aadhar is missing
CandidateBodies ==
    {[name |-> "Asha", dob |-> "2000-01-01", mobile |-> m, aadhar |-> a] :
        m \in ValidPhones, a \in Aadhars}
    \cup {[name |-> "Asha", dob |-> "2000-01-01", mobile |-> m] : m \in ValidPhones}

\* the bodies of PUT /api/candidates/:id, which are not validated
UpdateBodies ==
    {[aadhar |-> a] : a \in Aadhars}
    \cup {[mobile |-> m] : m \in ValidPhones}
    \cup {[status |-> "Enrolled"]}
    \cup {[id |-> 0]}

\* the :id of a request path: the ids that may be handed out and one that is
\* not a number
IdParams == {ToString(i) : i \in 1 .. MaxId} \cup {"abc"}

\* isNaN(parseInt(s)) and parseInt(s) for the strings of IdParams
IsNaN(s) == \A i \in 0 .. MaxId + 1 : ToString(i) # s

ParseInt(s) == CHOOSE i \in 0 .. MaxId + 1 : ToString(i) = s

\* insertCandidateSchema.parse of routes.ts:228 does not throw: the columns of
\* shared/schema.ts that are notNull and have no default are present
ParseOk(body) == {"name", "dob", "mobile", "aadhar"} \subseteq DOMAIN body

\* getCandidateByAadhar / getCandidateByMobile of MemStorage find a candidate
FoundByAadhar(m, aadhar) == \E e \in m : e.value.aadhar = aadhar

FoundByMobile(m, mobile) == \E e \in m : e.value.mobile = mobile

\* String(n).slice(-6) for a non-negative integer: the decimal digits of n, the
\* last six of them when there are more
RECURSIVE Digits(_, _)
Digits(n, width) ==
    IF width = 0 THEN "" ELSE Digits(n \div 10, width - 1) \o DigitChar[(n % 10) + 1]

LastSix(n) == IF n < 1000000 THEN ToString(n) ELSE Digits(n, 6)

\* candidateId of routes.ts:243
CandidateIdAt(t) == "TRN" \o LastSix(t)

\* the candidate built by MemStorage.createCandidate; the optional columns,
\* which no body of CandidateBodies carries and which are stored as null, are
\* left out
NewCandidate(insertCandidate, candidateId, id, t) ==
    [name        |-> insertCandidate.name,
     dob         |-> insertCandidate.dob,
     mobile      |-> insertCandidate.mobile,
     aadhar      |-> insertCandidate.aadhar,
     candidateId |-> candidateId,
     id          |-> id,
     createdAt   |-> t,
     status      |-> "Not Enrolled"]

\* { ...candidate, ...updates } of MemStorage.updateCandidate
Merge(candidate, updates) ==
    [f \in DOMAIN candidate \cup DOMAIN updates |->
        IF f \in DOMAIN updates THEN updates[f] ELSE candidate[f]]

\* a slip: only the aadhar is looked up before creating
CreateBranchAadharOnly(m, body) ==
    IF ~ParseOk(body) THEN "invalid"
    ELSE IF FoundByAadhar(m, body.aadhar) THEN "aadhar"
    ELSE "created"

\* the way POST /api/candidates takes through routes.ts:228-247: "invalid"
\* (ZodError, 250-254), "aadhar" (233), "mobile" (239) or "created" (247)
CreateBranch(m, body) ==
    IF ~ParseOk(body) THEN "invalid"
    ELSE IF FoundByAadhar(m, body.aadhar) THEN "aadhar"
    ELSE IF FoundByMobile(m, body.mobile) THEN "mobile"
    ELSE "created"

\* POST /api/candidates, routes.ts:225-258, with MemStorage.createCandidate
CreateCandidate(body) ==
    LET branch == CreateBranch(candidates, body)
        candidate == NewCandidate(body, CandidateIdAt(now), currentId, now) IN
    /\ branch = "created" => currentId <= MaxId
    /\ req' = [op |-> "create-candidate", id |-> "", body |-> body]
    /\ candidates' = IF branch = "created"
                     THEN MapSet(candidates, currentId, candidate)
                     ELSE candidates
    /\ currentId' = IF branch = "created" THEN currentId + 1 ELSE currentId
    /\ res' = CASE branch = "invalid" ->
                      [status |-> 400, body |-> [error |-> "Invalid candidate data"]]
                [] branch = "aadhar" ->
                      [status |-> 409,
                       body |-> [error |-> "Candidate with this Aadhar already exists"]]
                [] branch = "mobile" ->
                      [status |-> 409,
                       body |-> [error |->
                                   "Candidate with this mobile number already exists"]]
                [] branch = "created" ->
                      [status |-> 201, body |-> candidate]
    /\ UNCHANGED <<now, otpStore, locals, timers, watched, hist, pending, activeStorage>>

\* PUT /api/candidates/:id, routes.ts:282-300, with MemStorage.updateCandidate
UpdateCandidate(idParam, updates) ==
    LET found == ~IsNaN(idParam) /\ MapHas(candidates, ParseInt(idParam))
        updated == Merge(MapGet(candidates, ParseInt(idParam)), updates) IN
    /\ req' = [op |-> "update-candidate", id |-> idParam, body |-> updates]
    /\ candidates' = IF found
                     THEN MapSet(candidates, ParseInt(idParam), updated)
                     ELSE candidates
    /\ res' = IF IsNaN(idParam)
              THEN [status |-> 400, body |-> [error |-> "Invalid candidate ID"]]
              ELSE IF ~found
              THEN [status |-> 404, body |-> [error |-> "Candidate not found"]]
              ELSE [status |-> 200, body |-> updated]
    /\ UNCHANGED <<now, otpStore, locals, timers, watched, hist, currentId, pending, activeStorage>>

\* the methods the class of the active storage defines: MemStorage
\* (part_008:14-80) and MongoStorage (mongoStorage.ts:6-68), which has no
\* deleteCandidate
Methods(active) ==
    IF active = "MemStorage"
    THEN {"getCandidate", "getCandidateById", "getCandidateByAadhar",
          "getCandidateByMobile", "createCandidate", "updateCandidate",
          "deleteCandidate", "getAllCandidates"}
    ELSE {"getCandidate", "getCandidateById", "getCandidateByAadhar",
          "getCandidateByMobile", "createCandidate", "updateCandidate",
          "getAllCandidates"}

\* DELETE /api/candidates/:id, routes.ts:260-279: with MemStorage.deleteCandidate
\* when the active storage has the method; calling a method the storage does not
\* have throws a TypeError, which the catch block of routes.ts:275-278 answers
DeleteCandidate(idParam) ==
    LET throws == ~IsNaN(idParam) /\ "deleteCandidate" \notin Methods(activeStorage)
        found == ~IsNaN(idParam) /\ ~throws /\ MapHas(candidates, ParseInt(idParam)) IN
    /\ req' = [op |-> "delete-candidate", id |-> idParam, body |-> [none |-> TRUE]]
    /\ candidates' = IF found THEN MapDelete(candidates, ParseInt(idParam))
                     ELSE candidates
    /\ res' = IF IsNaN(idParam)
              THEN [status |-> 400, body |-> [error |-> "Invalid candidate ID"]]
              ELSE IF throws
              THEN [status |-> 500, body |-> [error |-> "Failed to delete candidate"]]
              ELSE IF ~found
              THEN [status |-> 404, body |-> [error |-> "Candidate not found"]]
              ELSE [status |-> 200,
                    body |-> [success |-> TRUE,
                              message |-> "Candidate deleted successfully"]]
    /\ UNCHANGED <<now, otpStore, locals, timers, watched, hist, currentId, pending, activeStorage>>

----------------------------------------------------------------------------
(* Requests in flight: a handler runs from one await to the next without    *)
(* another handler running in between                                       *)

\* at most this many handlers are suspended at a time
MaxPending == 2

\* the identity given to a request that becomes suspended
FreeRid == CHOOSE r \in 1 .. MaxPending : \A p \in pending : p.rid # r

\* a slip: the code for the response read from the map after the awaits
SendOtpResultReadsStore(store, p, twilioEnv, twilioOk, textbelt) ==
    SmsResult(IF MapHas(store, p.phoneNumber) THEN MapGet(store, p.phoneNumber).otp
              ELSE "",
              twilioEnv, twilioOk, textbelt)

\* smsResult of routes.ts:83-143 for the suspended request p: the code in it
\* is the local otp of routes.ts:73, the map is not read again
SendOtpResult(store, p, twilioEnv, twilioOk, textbelt) ==
    SmsResult(p.otp, twilioEnv, twilioOk, textbelt)

\* POST /api/send-otp from routes.ts:64 to its first await (routes.ts:88 or 105):
\* the phone number is checked, the code generated and the record stored
SendOtpReceived(phoneNumber, n) ==
    LET otp == GenerateOtp(n) IN
    /\ ~InvalidPhone(phoneNumber) => Cardinality(pending) < MaxPending
    /\ otpStore' = SendStore(otpStore, now, phoneNumber, otp)
    /\ IF InvalidPhone(phoneNumber)
       THEN /\ req' = [op |-> "send-otp", phoneNumber |-> phoneNumber, otp |-> ""]
            /\ res' = SendResponse(phoneNumber, otp, FALSE, FALSE, "failure")
            /\ UNCHANGED <<pending, hist>>
       ELSE /\ req' = [op |-> "send-otp-received", phoneNumber |-> phoneNumber,
                       otp |-> ""]
            /\ res' = NoResponse
            /\ pending' = pending \cup
                   {[rid |-> FreeRid, op |-> "send-otp", phoneNumber |-> phoneNumber,
                     otp |-> otp]}
            /\ hist' = IF phoneNumber = watched THEN Issued(hist, otp, now) ELSE hist
    /\ UNCHANGED <<now, locals, timers, watched, storage, activeStorage>>

\* the rest of the handler, routes.ts:88-146: the providers answer and the
\* response is sent
SendOtpResponds(p, twilioEnv, twilioOk, textbelt) ==
    /\ p \in pending
    /\ p.op = "send-otp"
    /\ pending' = pending \ {p}
    /\ req' = [op |-> "send-otp", phoneNumber |-> p.phoneNumber, otp |-> ""]
    /\ res' = [status |-> 200,
               body |-> SendOtpResult(otpStore, p, twilioEnv, twilioOk, textbelt)]
    /\ UNCHANGED <<now, otpStore, locals, timers, watched, hist, storage, activeStorage>>

\* POST /api/candidates, routes.ts:225-258, with MongoStorage.createCandidate
\* (mongoStorage.ts:33-54). The collection is the set of its documents, each under
\* a key that stands for its _id; no document is ever removed, so the count + 1
\* is a new key. The indexes that server/database.ts creates are not modelled
CreateCandidateMongo(body) ==
    LET branch == CreateBranch(candidates, body)
        id == Cardinality(candidates) + 1
        candidate == NewCandidate(body, CandidateIdAt(now), id, now) IN
    /\ activeStorage = "MongoStorage"
    /\ branch = "created" => id <= MaxId
    /\ req' = [op |-> "create-candidate", id |-> "", body |-> body]
    /\ candidates' = IF branch = "created"
                     THEN candidates \cup {[key |-> id, value |-> candidate]}
                     ELSE candidates
    /\ res' = CASE branch = "invalid" ->
                      [status |-> 400, body |-> [error |-> "Invalid candidate data"]]
                [] branch = "aadhar" ->
                      [status |-> 409,
                       body |-> [error |-> "Candidate with this Aadhar already exists"]]
                [] branch = "mobile" ->
                      [status |-> 409,
                       body |-> [error |->
                                   "Candidate with this mobile number already exists"]]
                [] branch = "created" ->
                      [status |-> 201, body |-> candidate]
    /\ UNCHANGED <<now, otpStore, locals, timers, watched, hist, currentId, pending,
                   activeStorage>>

\* PUT /api/candidates/:id, routes.ts:282-300, with MongoStorage.updateCandidate
\* (mongoStorage.ts:56-63): findOneAndUpdate({ id }, { $set: updates })
UpdateCandidateMongo(idParam, updates) ==
    LET matching == IF IsNaN(idParam) THEN {}
                    ELSE {e \in candidates : e.value.id = ParseInt(idParam)}
        e == CHOOSE e \in matching : TRUE
        updated == Merge(e.value, updates) IN
    /\ activeStorage = "MongoStorage"
    /\ req' = [op |-> "update-candidate", id |-> idParam, body |-> updates]
    /\ candidates' = IF matching # {}
                     THEN (candidates \ {e}) \cup {[key |-> e.key, value |-> updated]}
                     ELSE candidates
    /\ res' = IF IsNaN(idParam)
              THEN [status |-> 400, body |-> [error |-> "Invalid candidate ID"]]
              ELSE IF matching = {}
              THEN [status |-> 404, body |-> [error |-> "Candidate not found"]]
              ELSE [status |-> 200, body |-> updated]
    /\ UNCHANGED <<now, otpStore, locals, timers, watched, hist, currentId, pending,
                   activeStorage>>

\* POST /api/candidates from routes.ts:227 to its first await (routes.ts:231):
\* the body is parsed and getCandidateByAadhar called, whose body runs at the call
CreateReceived(body) ==
    /\ ParseOk(body) => Cardinality(pending) < MaxPending
    /\ IF ~ParseOk(body)
       THEN /\ req' = [op |-> "create-candidate", id |-> "", body |-> body]
            /\ res' = [status |-> 400, body |-> [error |-> "Invalid candidate data"]]
            /\ UNCHANGED pending
       ELSE /\ req' = [op |-> "create-candidate-received", id |-> "", body |-> body]
            /\ res' = NoResponse
            /\ pending' = pending \cup
                   {[rid |-> FreeRid, op |-> "create-candidate", pc |-> "aadhar",
                     body |-> body, found |-> FoundByAadhar(candidates, body.aadhar)]}
    /\ UNCHANGED <<now, otpStore, locals, timers, watched, hist, storage, activeStorage>>

\* routes.ts:232-237: the handler resumes with the result of the aadhar lookup and
\* answers 409 or calls getCandidateByMobile
CreateAfterAadhar(p) ==
    /\ p \in pending
    /\ p.op = "create-candidate"
    /\ p.pc = "aadhar"
    /\ IF p.found
       THEN /\ req' = [op |-> "create-candidate", id |-> "", body |-> p.body]
            /\ res' = [status |-> 409,
                       body |-> [error |-> "Candidate with this Aadhar already exists"]]
            /\ pending' = pending \ {p}
       ELSE /\ req' = NoRequest
            /\ res' = NoResponse
            /\ pending' = (pending \ {p}) \cup
                   {[p EXCEPT !.pc = "mobile",
                              !.found = FoundByMobile(candidates, p.body.mobile)]}
    /\ UNCHANGED <<now, otpStore, locals, timers, watched, hist, storage, activeStorage>>

\* routes.ts:238-245: the handler resumes with the result of the mobile lookup and
\* answers 409 or calls createCandidate, whose body (part_008:47-62) runs at the call
CreateAfterMobile(p) ==
    LET candidate == NewCandidate(p.body, CandidateIdAt(now), currentId, now) IN
    /\ p \in pending
    /\ p.op = "create-candidate"
    /\ p.pc = "mobile"
    /\ ~p.found => currentId <= MaxId
    /\ IF p.found
       THEN /\ req' = [op |-> "create-candidate", id |-> "", body |-> p.body]
            /\ res' = [status |-> 409,
                       body |-> [error |->
                                   "Candidate with this mobile number already exists"]]
            /\ pending' = pending \ {p}
            /\ UNCHANGED storage
       ELSE /\ req' = NoRequest
            /\ res' = NoResponse
            /\ candidates' = MapSet(candidates, currentId, candidate)
            /\ currentId' = currentId + 1
            /\ pending' = (pending \ {p}) \cup
                   {[rid |-> p.rid, op |-> "create-candidate", pc |-> "created",
                     body |-> p.body, found |-> FALSE, candidate |-> candidate]}
    /\ UNCHANGED <<now, otpStore, locals, timers, watched, hist, activeStorage>>

\* routes.ts:247: the handler resumes with the candidate created and answers 201
CreateResponds(p) ==
    /\ p \in pending
    /\ p.op = "create-candidate"
    /\ p.pc = "created"
    /\ req' = [op |-> "create-candidate", id |-> "", body |-> p.body]
    /\ res' = [status |-> 201, body |-> p.candidate]
    /\ pending' = pending \ {p}
    /\ UNCHANGED <<now, otpStore, locals, timers, watched, hist, storage, activeStorage>>

----------------------------------------------------------------------------
(* Both pairs of handlers given every request, each on its own store, the   *)
(* cleanup timers left out                                                  *)

SendOtpBoth(phoneNumber, n, twilioEnv, twilioOk, textbelt) ==
    LET otp == GenerateOtp(n) IN
    /\ req' = [op |-> "send-otp", phoneNumber |-> phoneNumber, otp |-> ""]
    /\ otpStore' = SendStore(otpStore, now, phoneNumber, otp)
    /\ locals' = SendLocals(locals, now, phoneNumber, otp)
    /\ res' = SendResponse(phoneNumber, otp, twilioEnv, twilioOk, textbelt)
    /\ hist' = IF phoneNumber = watched THEN Issued(hist, otp, now) ELSE hist
    /\ UNCHANGED <<now, timers, watched, storage, pending, activeStorage>>

VerifyOtpBoth(phoneNumber, otp) ==
    /\ req' = [op |-> "verify-otp", phoneNumber |-> phoneNumber, otp |-> otp]
    /\ otpStore' = VerifyStore(otpStore, now, phoneNumber, otp)
    /\ locals' = VerifyLocals(locals, now, phoneNumber, otp)
    /\ res' = VerifyResponse(otpStore, now, phoneNumber, otp)
    /\ hist' = IF phoneNumber = watched /\ ~Falsy(otp) /\ hist.otp # ""
               THEN Verified(hist, otp, now)
               ELSE hist
    /\ UNCHANGED <<now, timers, watched, storage, pending, activeStorage>>

----------------------------------------------------------------------------
(* The clock and the specifications *)

\* time passes between two requests
Tick(d) ==
    /\ now + d <= MaxNow
    /\ now' = now + d
    /\ req' = NoRequest
    /\ res' = NoResponse
    /\ UNCHANGED <<otpStore, locals, timers, watched, hist, storage, pending, activeStorage>>

\* the code strings a verify request may carry: every code that can be issued
\* (each is a wrong code when the other one was issued) and a missing one
OtpInputs == {GenerateOtp(n) : n \in RandomDraws} \cup {""}

\* what the SMS providers do during one send-otp request: <<twilioEnv, twilioOk,
\* textbelt>>, one case for each way through routes.ts:86-143
ProviderCases ==
    {<<TRUE, TRUE, "success">>, <<TRUE, FALSE, "success">>,
     <<TRUE, FALSE, "failure">>, <<FALSE, FALSE, "throws">>}

Init ==
    /\ now = 0
    /\ otpStore = {}
    /\ locals = {}
    /\ timers = {}
    /\ req = NoRequest
    /\ res = NoResponse
    /\ watched \in ValidPhones
    /\ hist = NoHistory
    /\ candidates = {}
    /\ currentId = 1
    /\ pending = {}
    /\ activeStorage = "MemStorage"

Next ==
    \/ \E phoneNumber \in SendPhoneInputs, n \in RandomDraws, sms \in ProviderCases :
            SendOtp(phoneNumber, n, sms[1], sms[2], sms[3])
    \/ \E phoneNumber \in VerifyPhoneInputs, otp \in OtpInputs :
            VerifyOtp(phoneNumber, otp)
    \/ \E d \in ClockSteps : Tick(d)

Spec == Init /\ [][Next]_vars

\* the state after registerRoutes when MONGODB_URI is set and the connection
\* succeeds (routes.ts:15-21)
InitMongo ==
    /\ now = 0
    /\ otpStore = {}
    /\ locals = {}
    /\ timers = {}
    /\ req = NoRequest
    /\ res = NoResponse
    /\ watched \in ValidPhones
    /\ hist = NoHistory
    /\ candidates = {}
    /\ currentId = 1
    /\ pending = {}
    /\ activeStorage = "MongoStorage"

\* a slip: the app.locals handlers registered before the otpStore ones
RegisteredLocalsFirst ==
    <<[path |-> "/api/send-otp", handler |-> "app.locals"],
      [path |-> "/api/verify-otp", handler |-> "app.locals"],
      [path |-> "/api/send-otp", handler |-> "otpStore"],
      [path |-> "/api/verify-otp", handler |-> "otpStore"]>>

\* the POST layers of the OTP paths on the router's stack, in the order
\* registerRoutes adds them: routes.ts:64, 155, 323 and 401
Registered ==
    <<[path |-> "/api/send-otp", handler |-> "otpStore"],
      [path |-> "/api/verify-otp", handler |-> "otpStore"],
      [path |-> "/api/send-otp", handler |-> "app.locals"],
      [path |-> "/api/verify-otp", handler |-> "app.locals"]>>

\* the handlers that run for a request: the first layer that matches the path,
\* and a later one only when every matching handler before it has called next.
\* All four handlers are (req, res) functions: none can call next
CallsNext(layer) == FALSE

RECURSIVE Handlers(_, _)
Handlers(path, i) ==
    IF i > Len(Registered) THEN <<>>
    ELSE IF Registered[i].path # path THEN Handlers(path, i + 1)
    ELSE IF CallsNext(Registered[i])
    THEN <<Registered[i].handler>> \o Handlers(path, i + 1)
    ELSE <<Registered[i].handler>>

\* POST /api/send-otp as the application handles it
PostSendOtp(phoneNumber, n, twilioEnv, twilioOk, textbelt) ==
    /\ Len(Handlers("/api/send-otp", 1)) = 1
    /\ IF Handlers("/api/send-otp", 1)[1] = "otpStore"
       THEN SendOtp(phoneNumber, n, twilioEnv, twilioOk, textbelt)
       ELSE SendOtpLocals(phoneNumber, n, textbelt)

\* POST /api/verify-otp as the application handles it
PostVerifyOtp(phoneNumber, otp) ==
    /\ Len(Handlers("/api/verify-otp", 1)) = 1
    /\ IF Handlers("/api/verify-otp", 1)[1] = "otpStore"
       THEN VerifyOtp(phoneNumber, otp)
       ELSE VerifyOtpLocals(phoneNumber, otp)

NextExpress ==
    \/ \E phoneNumber \in SendPhoneInputs, n \in RandomDraws, sms \in ProviderCases :
            PostSendOtp(phoneNumber, n, sms[1], sms[2], sms[3])
    \/ \E phoneNumber \in VerifyPhoneInputs, otp \in OtpInputs :
            PostVerifyOtp(phoneNumber, otp)
    \/ \E d \in ClockSteps : Tick(d)

SpecExpress == Init /\ [][NextExpress]_vars

\* the second registrations in the place of the first
NextLocals ==
    \/ \E phoneNumber \in VerifyPhoneInputs, n \in RandomDraws,
          textbelt \in {"success", "failure", "throws"} :
            SendOtpLocals(phoneNumber, n, textbelt)
    \/ \E phoneNumber \in VerifyPhoneInputs, otp \in OtpInputs :
            VerifyOtpLocals(phoneNumber, otp)
    \/ \E d \in ClockSteps : Tick(d)

SpecLocals == Init /\ [][NextLocals]_vars

NextTimers ==
    \/ NextLocals
    \/ \E timer \in timers : TimerFires(timer)

SpecTimers == Init /\ [][NextTimers]_vars

\* the candidate routes, the storage being the MemStorage instance
NextCandidates ==
    \/ \E body \in CandidateBodies : CreateCandidate(body)
    \/ \E idParam \in IdParams, updates \in UpdateBodies :
            UpdateCandidate(idParam, updates)
    \/ \E idParam \in IdParams : DeleteCandidate(idParam)
    \/ \E d \in ClockSteps : Tick(d)

SpecCandidates == Init /\ [][NextCandidates]_vars

\* the candidate routes, the storage being the MongoStorage instance
NextMongo ==
    \/ \E body \in CandidateBodies : CreateCandidateMongo(body)
    \/ \E idParam \in IdParams, updates \in UpdateBodies :
            UpdateCandidateMongo(idParam, updates)
    \/ \E idParam \in IdParams : DeleteCandidate(idParam)
    \/ \E d \in ClockSteps : Tick(d)

SpecMongo == InitMongo /\ [][NextMongo]_vars

\* send-otp and verify-otp requests for the watched number, the send-otp
\* handlers suspended at their awaits; the verify-otp handler has no await
NextConcurrent ==
    \/ \E phoneNumber \in {watched, ""}, n \in RandomDraws :
            SendOtpReceived(phoneNumber, n)
    \/ \E p \in pending, sms \in ProviderCases :
            SendOtpResponds(p, sms[1], sms[2], sms[3])
    \/ \E otp \in OtpInputs : VerifyOtp(watched, otp)
    \/ \E d \in ClockSteps : Tick(d)

SpecConcurrent == Init /\ [][NextConcurrent]_vars

\* POST /api/candidates requests on MemStorage, the handlers suspended at their
\* awaits
NextCreateRace ==
    \/ \E body \in CandidateBodies : CreateReceived(body)
    \/ \E p \in pending : CreateAfterAadhar(p)
    \/ \E p \in pending : CreateAfterMobile(p)
    \/ \E p \in pending : CreateResponds(p)
    \/ \E d \in ClockSteps : Tick(d)

SpecCreateRace == Init /\ [][NextCreateRace]_vars

\* the two pairs of handlers side by side, for the watched number, a missing
\* number and a number that is too short
NextBoth ==
    \/ \E phoneNumber \in {watched, "", "12345"}, n \in RandomDraws,
          sms \in ProviderCases :
            SendOtpBoth(phoneNumber, n, sms[1], sms[2], sms[3])
    \/ \E phoneNumber \in {watched, "", "12345"}, otp \in OtpInputs :
            VerifyOtpBoth(phoneNumber, otp)
    \/ \E d \in ClockSteps : Tick(d)

SpecBoth == Init /\ [][NextBoth]_vars

----------------------------------------------------------------------------
(* The outcome of a verify-otp request, read off the response *)

\* the request just handled is a verify-otp whose phoneNumber and otp are present
VerifyCall == req.op = "verify-otp" /\ ~Falsy(req.phoneNumber) /\ ~Falsy(req.otp)

ErrorIs(messages) ==
    /\ res.status = 400
    /\ "error" \in DOMAIN res.body
    /\ res.body.error \in messages

\* routes.ts:185, routes.ts:441
Success ==
    /\ VerifyCall
    /\ res.status = 200
    /\ "success" \in DOMAIN res.body
    /\ res.body.success

\* routes.ts:166, routes.ts:411 and 416
NotFound ==
    /\ VerifyCall
    /\ ErrorIs({"No OTP found for this number",
                "No OTP found. Please request a new OTP.",
                "OTP not found or expired. Please request a new OTP."})

\* routes.ts:173, routes.ts:426
Expired ==
    /\ VerifyCall
    /\ ErrorIs({"OTP has expired", "OTP has expired. Please request a new OTP."})

\* routes.ts:189-192, routes.ts:443-447
Mismatch(attemptsRemaining) ==
    /\ VerifyCall
    /\ ErrorIs({"Invalid OTP",
                "Invalid OTP. " \o ToString(attemptsRemaining) \o " attempts remaining."})
    /\ "attemptsLeft" \in DOMAIN res.body
    /\ res.body.attemptsLeft = attemptsRemaining

\* routes.ts:179, routes.ts:435
Exhausted ==
    /\ VerifyCall
    /\ ErrorIs({"Maximum verification attempts exceeded",
                "Maximum attempts exceeded. Please request a new OTP."})

\* the records held, whichever handlers keep them: the entries of otpStore and
\* the otp, timestamp and attempts of the entries of app.locals.otpStorage
Stored ==
    otpStore \cup
    {[key |-> e.key,
      value |-> [otp |-> e.value.otp, timestamp |-> e.value.timestamp,
                 attempts |-> e.value.attempts]] : e \in OtpStorage(locals)}

\* the entries the store holds for phone number p
Records(store, p) == {e \in store : e.key = p}

\* the watched number has been issued a code and FiveMinutes have not passed
\* since
BeforeExpiry == hist.otp # "" /\ now - hist.at <= FiveMinutes

\* the request handled next is a verify-otp for the watched number, which has
\* been issued a code (Tick and SendOtp set req' to something else)
VerifyWatched ==
    /\ VerifyCall'
    /\ req'.phoneNumber = watched
    /\ hist.otp # ""

----------------------------------------------------------------------------
(* C1 - single use *)

\* C1: after send-otp for p returned code c, the first verify-otp(p, c), made
\* before expiry, returns Success and deletes the record, and a verify-otp(p, c)
\* that immediately follows a Success for p returns NotFound.
C1_SingleUse ==
    [][VerifyWatched /\ req'.otp = hist.otp =>
          /\ (hist.streak = 0 /\ BeforeExpiry =>
                  Success' /\ Records(Stored', watched) = {})
          /\ (Success /\ req.phoneNumber = watched /\ req.otp = req'.otp =>
                  NotFound')]_vars

\* the issued code was submitted at least twice before expiry, with no wrong code
\* in between, and the last of these calls was answered NotFound
C1_Witness ==
    /\ NotFound
    /\ req.phoneNumber = watched
    /\ req.otp = hist.otp
    /\ hist.streak = Broken
    /\ hist.wrong = 0
    /\ BeforeExpiry

----------------------------------------------------------------------------
(* C2 - attempt budget *)

\* the request handled next is a verify-otp for the watched number that carries a
\* wrong code before expiry, and so has every verify call since the issue
WrongCodeInStreak ==
    /\ VerifyWatched
    /\ req'.otp # hist.otp
    /\ BeforeExpiry
    /\ hist.streak # Broken

----------------------------------------------------------------------------
(* C3 - expiry precedence *)

\* C3: a verify call for a phone number whose record is older than 5 minutes
\* returns Expired whether or not the code is right and whatever the attempt
\* counter is, and deletes the record; the verify call for that number that
\* follows it returns NotFound.
C3_ExpiryPrecedence ==
    [][VerifyCall' =>
          /\ \A e \in Records(Stored, req'.phoneNumber) :
                now - e.value.timestamp > FiveMinutes =>
                    Expired' /\ Records(Stored', req'.phoneNumber) = {}
          /\ (Expired /\ req.phoneNumber = req'.phoneNumber => NotFound')]_vars

\* the right code, submitted after expiry to a record that three wrong codes had
\* brought to counter 3, was answered Expired
C3_Witness ==
    /\ Expired
    /\ req.phoneNumber = watched
    /\ req.otp = hist.otp
    /\ hist.wrong = 3

----------------------------------------------------------------------------
(* C4 - overwrite *)

\* C4: after two issues for p with no verify call between them and different
\* codes, verify(p, first code) never returns Success, and returns Mismatch when
\* it is the first verify call and made before expiry; a Success is only ever
\* returned for the code of the most recent issue.
C4_Overwrite ==
    [][VerifyWatched =>
          /\ (hist.first # "" /\ hist.first # hist.otp /\ req'.otp = hist.first =>
                 /\ ~Success'
                 /\ (hist.streak = 0 /\ BeforeExpiry => Mismatch(2)'))
          /\ (Success' => req'.otp = hist.otp)]_vars

\* the code of the first of two issues was submitted right after the second
\* issue and answered Mismatch
C4_Witness ==
    /\ Mismatch(2)
    /\ req.phoneNumber = watched
    /\ hist.first # ""
    /\ hist.first # hist.otp
    /\ req.otp = hist.first
    /\ hist.streak = 1

----------------------------------------------------------------------------
(* C5 - isolation *)

\* C5: a send-otp or verify-otp request for one phone number leaves the record
\* of every other phone number as it was: present or not, code, timestamp and
\* attempt counter.
C5_Isolation ==
    [][req'.op \in {"send-otp", "verify-otp"} =>
          \A p2 \in ValidPhones :
              p2 # req'.phoneNumber => Records(Stored', p2) = Records(Stored, p2)]_vars

\* a request deleted the record of its phone number as expired while the other
\* phone number holds a record with attempts used
C5_Witness ==
    /\ Expired
    /\ \E e \in Stored : e.key # req.phoneNumber /\ e.value.attempts = 2

----------------------------------------------------------------------------
(* C6 - the range of the attempt counter *)

\* C6: the attempt counter of every record in the store is between 0 and 3.
C6_AttemptsInRange ==
    \A e \in Stored : e.value.attempts >= 0 /\ e.value.attempts <= 3

\* a record whose counter has reached 3 is in the store
C6_Witness == \E e \in Stored : e.value.attempts = 3

----------------------------------------------------------------------------
(* C7 - when exhaustion deletes the record *)

----------------------------------------------------------------------------
(* C8 - no Success after three wrong codes *)

\* C8: once three verify calls with a wrong code have been made since the last
\* issue, no verify call returns Success, the issued code included.
C8_NoSuccessAfterThreeWrong ==
    Success /\ req.phoneNumber = watched => hist.wrong < 3

\* the issued code, submitted before expiry after three wrong codes, was refused
C8_Witness ==
    /\ VerifyCall
    /\ ~Success
    /\ req.phoneNumber = watched
    /\ req.otp = hist.otp
    /\ hist.wrong = 3
    /\ BeforeExpiry

----------------------------------------------------------------------------
(* C9 - one record per phone number, replaced outright *)

\* C9: the store never holds two records for one phone number, and after a
\* send-otp for a valid phone number its record is exactly the newly generated
\* code, the time of this issue and attempt counter 0.
C9_ReplacedOutright ==
    [][/\ \A e1, e2 \in Stored' : e1.key = e2.key => e1 = e2
       /\ (req'.op = "send-otp" /\ req'.phoneNumber = watched =>
              Records(Stored', watched) =
                  {[key |-> watched,
                    value |-> [otp |-> hist'.otp, timestamp |-> now, attempts |-> 0]]})]_vars

\* a second issue for a number, made with no verify call since the first and so
\* while its record was held, left the record with the new, different code
C9_Witness ==
    /\ req.op = "send-otp"
    /\ req.phoneNumber = watched
    /\ hist.first # ""
    /\ hist.first # hist.otp
    /\ hist.at > 0
    /\ Records(Stored, watched) =
           {[key |-> watched,
             value |-> [otp |-> hist.otp, timestamp |-> now, attempts |-> 0]]}

----------------------------------------------------------------------------
(* C10 - the outcomes of verify *)

OutcomeCount ==
    Cardinality({i \in 1 .. 5 :
        \/ i = 1 /\ Success
        \/ i = 2 /\ NotFound
        \/ i = 3 /\ Expired
        \/ i = 4 /\ \E k \in 0 .. 2 : Mismatch(k)
        \/ i = 5 /\ Exhausted})

----------------------------------------------------------------------------
(* C11 - what the response tells about a number *)

\* C11 as stated: the response of verify-otp (status and body) to a request that
\* finds the record of its phone number expired is the response the same request
\* gets when the phone number has no record.
C11_AsStated ==
    Expired =>
        res = VerifyResponse(MapDelete(otpStore, req.phoneNumber), now,
                             req.phoneNumber, req.otp)

----------------------------------------------------------------------------
(* C12 - the code in the send-otp response *)

\* the request just handled is a send-otp that was answered 200
SendCall == req.op = "send-otp" /\ res.status = 200

\* the response says that an SMS provider accepted the message: routes.ts:94
\* (Twilio), routes.ts:122 and routes.ts:373 (Textbelt)
ProviderAccepted ==
    res.body.message \in {"OTP sent via Twilio SMS",
                          "OTP sent via Textbelt SMS (Free service)",
                          "OTP sent via Textbelt"}

\* the response carries the code issued, as demoOtp or inside the message
ContainsCode ==
    \/ "demoOtp" \in DOMAIN res.body
    \/ \E n \in RandomDraws :
          res.body.message = "Demo Mode: Your OTP is " \o GenerateOtp(n)
                             \o ". In production, this would be sent via SMS."

\* C12 as stated: the send-otp response contains the generated code only when
\* no SMS provider accepted the message; when a provider reports success the
\* response does not contain the code.
C12_AsStated == SendCall /\ ProviderAccepted => ~ContainsCode

----------------------------------------------------------------------------
(* C13 - issue has no error outcome *)

\* C13: send-otp with a valid phone number always responds with success and
\* leaves one record for that phone number, with attempt counter 0, whether each
\* SMS provider succeeds, fails or throws.
C13_IssueAlwaysSucceeds ==
    req.op = "send-otp" /\ req.phoneNumber \in ValidPhones =>
        /\ res.status = 200
        /\ "success" \in DOMAIN res.body
        /\ res.body.success
        /\ \E e \in Records(Stored, req.phoneNumber) :
              /\ Records(Stored, req.phoneNumber) = {e}
              /\ e.value.attempts = 0

\* no provider accepted the message (Twilio not configured or rejecting, Textbelt
\* refusing or throwing) and the request was answered with success, some time
\* after the first request
C13_Witness ==
    /\ req.op = "send-otp"
    /\ req.phoneNumber \in ValidPhones
    /\ now > 0
    /\ res.status = 200
    /\ ~ProviderAccepted
    /\ \E e \in Records(Stored, req.phoneNumber) : e.value.attempts = 0

----------------------------------------------------------------------------
(* C14 - duplicate prevention on create *)

\* the request handled next is a POST /api/candidates whose aadhar, or whose
\* mobile, is that of a stored candidate
CreateDuplicate ==
    /\ req'.op = "create-candidate"
    /\ \/ "aadhar" \in DOMAIN req'.body /\ FoundByAadhar(candidates, req'.body.aadhar)
       \/ "mobile" \in DOMAIN req'.body /\ FoundByMobile(candidates, req'.body.mobile)

\* C14: POST /api/candidates with the aadhar of a stored candidate, or with the
\* mobile number of a stored candidate, leaves the stored candidates unchanged
\* and, the body passing validation, responds 409.
C14_DuplicateRefused ==
    [][CreateDuplicate =>
          /\ candidates' = candidates
          /\ currentId' = currentId
          /\ (ParseOk(req'.body) => res'.status = 409)]_vars

\* a body with a new aadhar and the mobile number of a stored candidate was
\* answered 409
C14_Witness ==
    /\ req.op = "create-candidate"
    /\ ParseOk(req.body)
    /\ ~FoundByAadhar(candidates, req.body.aadhar)
    /\ FoundByMobile(candidates, req.body.mobile)
    /\ res.status = 409

----------------------------------------------------------------------------
(* C15 - no two candidates with one aadhar or one mobile number *)

\* C15 as stated: no two stored candidates have the same aadhar and no two have
\* the same mobile number.
C15_AsStated ==
    \A e1, e2 \in candidates :
        e1 # e2 => e1.value.aadhar # e2.value.aadhar /\ e1.value.mobile # e2.value.mobile

----------------------------------------------------------------------------
(* C16 - the order of the checks of verify *)

\* the attempt counter of the object the handler read for the phone number of
\* the request handled next, as that handler leaves it
CounterAfter ==
    IF MapHas(otpStore, req'.phoneNumber)
    THEN StoredDataAfter(otpStore, now, req'.phoneNumber, req'.otp).attempts
    ELSE OtpDataAfter(locals, now, req'.phoneNumber, req'.otp).attempts

\* C16: verify checks expiry, then the attempt limit, then the code: an expired
\* record is answered Expired whatever its counter and the code, and its counter
\* is left as it was; a record that is not expired and has counter 3 is answered
\* "attempts exceeded" whatever the code; only then does the code decide between
\* Success and Mismatch.
C16_CheckOrder ==
    [][VerifyCall' =>
          \A e \in Records(Stored, req'.phoneNumber) :
              LET expired == now - e.value.timestamp > FiveMinutes
                  exceeded == e.value.attempts >= 3 IN
              /\ (expired => Expired' /\ CounterAfter = e.value.attempts)
              /\ (~expired /\ exceeded => Exhausted')
              /\ (~expired /\ ~exceeded /\ req'.otp = e.value.otp => Success')
              /\ (~expired /\ ~exceeded /\ req'.otp # e.value.otp =>
                     \E k \in 0 .. 2 : Mismatch(k)')]_vars

\* a wrong code, submitted after expiry to a record that one wrong code had
\* brought to counter 1, was answered Expired
C16_Witness ==
    /\ Expired
    /\ req.phoneNumber = watched
    /\ req.otp # hist.otp
    /\ hist.wrong = 2

----------------------------------------------------------------------------
(* C17 - what a Mismatch counts and returns *)

\* C17: a verify call that returns Mismatch increments the attempt counter of
\* the record by exactly 1, changes nothing else in it, and returns
\* attemptsRemaining = 3 - the counter after the increment, one of 2, 1, 0.
C17_MismatchCounts ==
    [][VerifyCall' /\ "attemptsLeft" \in DOMAIN res'.body =>
          /\ \E k \in {2, 1, 0} : res'.body.attemptsLeft = k /\ Mismatch(k)'
          /\ \E e \in Records(Stored, req'.phoneNumber) :
                /\ Records(Stored', req'.phoneNumber) =
                       {[e EXCEPT !.value.attempts = @ + 1]}
                /\ res'.body.attemptsLeft = 3 - (e.value.attempts + 1)]_vars

\* the second wrong code for a record was answered Mismatch(1) and the record
\* holds counter 2
C17_Witness ==
    /\ Mismatch(1)
    /\ req.phoneNumber = watched
    /\ hist.streak = 2
    /\ \E e \in Records(Stored, watched) : e.value.attempts = 2

----------------------------------------------------------------------------
(* C18 - what verify changes in a record *)

\* C18: a record that is in the store after a verify call was there before it
\* with the same code and the same timestamp, and its attempt counter differs
\* only when the code submitted is not the code of the record.
C18_MutatedOnlyByFailure ==
    [][req'.op = "verify-otp" =>
          \A e2 \in Records(Stored', req'.phoneNumber) :
              \E e \in Records(Stored, req'.phoneNumber) :
                  /\ e2.value.otp = e.value.otp
                  /\ e2.value.timestamp = e.value.timestamp
                  /\ (e2.value.attempts # e.value.attempts => req'.otp # e.value.otp)]_vars

\* a wrong code submitted some time after the issue was answered Mismatch, and
\* the record holds the issued code, the time of the issue and counter 1
C18_Witness ==
    /\ Mismatch(2)
    /\ req.phoneNumber = watched
    /\ now > hist.at
    /\ Records(Stored, watched) =
           {[key |-> watched,
             value |-> [otp |-> hist.otp, timestamp |-> hist.at, attempts |-> 1]]}

----------------------------------------------------------------------------
(* C19 - the expiry boundary *)

\* C19 as stated: a verify call is answered Expired only when the record is
\* strictly older than 5 minutes, and a verify call with the issued code made at
\* exactly issuedAt + 5 minutes, every verify call since the issue having been a
\* mismatch and fewer than 3 of them made, returns Success.
C19_AsStated ==
    [][VerifyCall' =>
          /\ (Expired' =>
                 \E e \in Records(Stored, req'.phoneNumber) :
                     now > e.value.timestamp + FiveMinutes)
          /\ (/\ req'.phoneNumber = watched
              /\ req'.otp = hist.otp
              /\ now = hist.at + FiveMinutes
              /\ hist.streak \in {0, 1, 2}
              => Success')]_vars

----------------------------------------------------------------------------
(* C20 - verify for a number that has no record *)

\* C20: a verify call for a phone number that has no record returns NotFound and
\* leaves the whole store as it was: no record is created for that number and no
\* other record is touched.
C20_NotFoundNoEffect ==
    [][VerifyCall' /\ Records(Stored, req'.phoneNumber) = {} =>
          /\ NotFound'
          /\ otpStore' = otpStore
          /\ locals' = locals]_vars

\* a verify call for a number without a record was answered NotFound while the
\* other number holds a record with a failed attempt counted
C20_Witness ==
    /\ NotFound
    /\ Records(Stored, req.phoneNumber) = {}
    /\ \E e \in Stored : e.key # req.phoneNumber /\ e.value.attempts = 1

----------------------------------------------------------------------------
(* C21 - concurrent requests for one phone number *)

\* C21: with send-otp handlers interleaving at their awaits, every request
\* takes effect at one point: a send-otp stores its record in the step that
\* receives it, its response is the one the handler run in one piece at that
\* point gives for the code it stored, and sending it changes no record; a
\* verify call returns Success only for the code of the latest issue and only
\* when no verify call since that issue carried that code, so at most once for
\* each issue.
C21_Linearizable ==
    [][/\ (req'.op = "send-otp-received" =>
              \E n \in RandomDraws :
                  otpStore' = SendStore(otpStore, now, req'.phoneNumber, GenerateOtp(n)))
       /\ (req'.op = "send-otp" /\ res'.status = 200 =>
              /\ otpStore' = otpStore
              /\ \E p \in pending \ pending', sms \in ProviderCases :
                    res' = SendResponse(p.phoneNumber, p.otp, sms[1], sms[2], sms[3]))
       /\ (Success' => req'.otp = hist.otp /\ hist.streak # Broken)]_vars

\* a send-otp request was answered with its code in the response after a later
\* send-otp request had replaced that code in the store
C21_Witness ==
    /\ req.op = "send-otp"
    /\ res.status = 200
    /\ "demoOtp" \in DOMAIN res.body
    /\ res.body.demoOtp # hist.otp
    /\ \E e \in Records(Stored, watched) : e.value.otp = hist.otp

----------------------------------------------------------------------------
(* C22 - the cleanup timer *)

\* C22 as stated: a cleanup timer deletes no record that is younger than 5
\* minutes, that is none created by a send-otp later than the one that set the
\* timer, and the code of the latest issue, submitted as the first verify call
\* less than 5 minutes after that issue, returns Success.
C22_AsStated ==
    [][/\ (timers' # timers /\ timers' \subseteq timers =>
              \A e \in Stored \ Stored' : e.value.timestamp + FiveMinutes <= now)
       /\ (/\ VerifyWatched
           /\ req'.otp = hist.otp
           /\ hist.streak = 0
           /\ now < hist.at + FiveMinutes
           => Success')]_vars

----------------------------------------------------------------------------
(* C23 - the two pairs of handlers compared *)

\* the kind of outcome a response stands for
OutcomeKind(r) ==
    IF r.status = 200 THEN "success"
    ELSE IF "attemptsLeft" \in DOMAIN r.body THEN "mismatch"
    ELSE IF r.body.error \in {"No OTP found for this number",
                              "No OTP found. Please request a new OTP.",
                              "OTP not found or expired. Please request a new OTP."}
    THEN "not found"
    ELSE IF r.body.error \in {"OTP has expired",
                              "OTP has expired. Please request a new OTP."}
    THEN "expired"
    ELSE IF r.body.error \in {"Maximum verification attempts exceeded",
                              "Maximum attempts exceeded. Please request a new OTP."}
    THEN "exceeded"
    ELSE "invalid"

\* the attemptsLeft of a response, 0 - 1 when it has none
AttemptsLeftOf(r) == IF "attemptsLeft" \in DOMAIN r.body THEN r.body.attemptsLeft ELSE 0 - 1

\* the response of the second pair of handlers to the request handled next
SecondResponse ==
    IF req'.op = "send-otp"
    THEN SendResponseLocals(req'.phoneNumber, hist'.otp, "failure")
    ELSE VerifyResponseLocals(locals, now, req'.phoneNumber, req'.otp)

\* the phone numbers a store holds a record for
Keys(m) == {e.key : e \in m}

\* C23 as stated: at every step both pairs of handlers return the same kind of
\* outcome and the same attemptsLeft, and after it hold a record for the same
\* phone numbers.
C23_AsStated ==
    [][req'.op \in {"send-otp", "verify-otp"} =>
          /\ OutcomeKind(res') = OutcomeKind(SecondResponse)
          /\ AttemptsLeftOf(res') = AttemptsLeftOf(SecondResponse)
          /\ Keys(otpStore') = Keys(OtpStorage(locals'))]_vars

\* C23 as amended: for requests whose phone number has 10 digits or is missing
\* both pairs return the same kind of outcome and the same attemptsLeft, and
\* after every step they hold a record for the same 10-digit numbers; a
\* send-otp with a phone number of another length is refused with 400 by the
\* first pair, which stores nothing, and is answered with success by the
\* second, which stores a record.
C23_EquivalentOnTenDigits ==
    [][req'.op \in {"send-otp", "verify-otp"} =>
          /\ (Falsy(req'.phoneNumber) \/ Len(req'.phoneNumber) = 10 =>
                 /\ OutcomeKind(res') = OutcomeKind(SecondResponse)
                 /\ AttemptsLeftOf(res') = AttemptsLeftOf(SecondResponse))
          /\ {k \in Keys(otpStore') : Len(k) = 10}
                 = {k \in Keys(OtpStorage(locals')) : Len(k) = 10}
          /\ (req'.op = "send-otp" /\ ~Falsy(req'.phoneNumber)
                 /\ Len(req'.phoneNumber) # 10 =>
                 /\ res'.status = 400
                 /\ otpStore' = otpStore
                 /\ SecondResponse.status = 200
                 /\ MapHas(OtpStorage(locals'), req'.phoneNumber))]_vars

\* the fourth verify call for the watched number was answered "attempts
\* exceeded" and both stores dropped its record, while the second store holds a
\* record for the number that is too short
C23_Witness ==
    /\ Exhausted
    /\ req.phoneNumber = watched
    /\ hist.streak = 4
    /\ ~MapHas(otpStore, watched)
    /\ ~MapHas(OtpStorage(locals), watched)
    /\ MapHas(OtpStorage(locals), "12345")

----------------------------------------------------------------------------
(* C24 - duplicate prevention under concurrency *)

\* C24 as stated: with POST /api/candidates handlers interleaving at their
\* awaits, a request answered 201 has created a candidate whose aadhar and
\* whose mobile number no other stored candidate has: of two requests with the
\* same aadhar or mobile at most one creates a candidate.
C24_AsStated ==
    req.op = "create-candidate" /\ res.status = 201 =>
        \A e \in candidates :
            e.value.id # res.body.id =>
                /\ e.value.aadhar # res.body.aadhar
                /\ e.value.mobile # res.body.mobile

----------------------------------------------------------------------------
(* C25 - the candidateId of a new candidate *)

\* C25 as stated: the candidate a POST /api/candidates request has created has a
\* candidateId, 'TRN' and the last six digits of the time of creation, that no
\* other stored candidate has.
C25_AsStated ==
    req.op = "create-candidate" /\ res.status = 201 =>
        /\ res.body.candidateId = "TRN" \o LastSix(res.body.createdAt)
        /\ \A e \in candidates :
              e.value.id # res.body.id => e.value.candidateId # res.body.candidateId

----------------------------------------------------------------------------
(* C26 - delete on either storage *)

\* C26 as stated: DELETE /api/candidates/:id with a numeric id removes the
\* candidate and responds 200 when a candidate with that id is stored, responds
\* 404 and leaves the storage unchanged when none is, and never responds 500.
C26_AsStated ==
    [][req'.op = "delete-candidate" /\ ~IsNaN(req'.id) =>
          /\ res'.status # 500
          /\ IF \E e \in candidates : e.value.id = ParseInt(req'.id)
             THEN /\ res'.status = 200
                  /\ \A e \in candidates' : e.value.id # ParseInt(req'.id)
             ELSE /\ res'.status = 404
                  /\ candidates' = candidates]_vars

----------------------------------------------------------------------------
(* C27 - the identity of a stored candidate *)

\* C27 as stated: in MemStorage every candidate stored under map key k has id k,
\* and an update never changes the id, candidateId or createdAt of the candidate
\* it updates.
C27_AsStated ==
    /\ [](\A e \in candidates : e.value.id = e.key)
    /\ [][req'.op = "update-candidate" /\ res'.status = 200 =>
             LET before == MapGet(candidates, ParseInt(req'.id)) IN
             /\ res'.body.id = before.id
             /\ res'.body.candidateId = before.candidateId
             /\ res'.body.createdAt = before.createdAt]_vars

----------------------------------------------------------------------------
(* C28 - requests that fail validation *)

\* C28: send-otp with a missing phone number or one whose length is not 10, and
\* verify-otp with a missing phone number or a missing code, respond 400 and
\* leave the OTP store as it was.
C28_ValidationChangesNothing ==
    [][(\/ /\ req'.op = "send-otp"
           /\ (req'.phoneNumber = "" \/ Len(req'.phoneNumber) # 10)
        \/ /\ req'.op = "verify-otp"
           /\ (req'.phoneNumber = "" \/ req'.otp = ""))
       => res'.status = 400 /\ otpStore' = otpStore]_vars

\* a verify-otp without a code was refused for a number whose record has
\* already counted a failed attempt, and the record is still there
C28_Witness ==
    /\ req.op = "verify-otp"
    /\ req.otp = ""
    /\ res.status = 400
    /\ MapHas(otpStore, req.phoneNumber)
    /\ MapGet(otpStore, req.phoneNumber).attempts > 0

----------------------------------------------------------------------------
(* C29 - the range of the generated codes *)

\* the decimal strings of the integers from 1000 to 9999
FourDigitCodes == {ToString(k) : k \in 1000 .. 9999}

\* the codes generated over all the draws n / RandomScale of the random source
GeneratedCodes == {GenerateOtp(n) : n \in 0 .. RandomScale - 1}

\* every generated code is one of the four-digit codes
GeneratedInRange == \A otp \in GeneratedCodes : otp \in FourDigitCodes /\ Len(otp) = 4

\* C29: every code generated by an issue, for every draw of the random source in
\* [0, 1), is the decimal string of an integer between 1000 and 9999: it has 4
\* digits and no leading zero; so has every code that is stored.
C29_FourDigits ==
    /\ GeneratedInRange
    /\ \A e \in otpStore \cup OtpStorage(locals) : e.value.otp \in GeneratedCodes

\* the greatest draw was issued and its code, the greatest one, is stored
C29_Witness ==
    /\ req.op = "send-otp"
    /\ res.status = 200
    /\ MapHas(otpStore, req.phoneNumber)
    /\ MapGet(otpStore, req.phoneNumber).otp = GenerateOtp(RandomScale - 1)
    /\ MapGet(otpStore, req.phoneNumber).otp = "9999"

----------------------------------------------------------------------------
(* C30 - the routes registered twice *)

\* C30: each send-otp and verify-otp request is handled by exactly one handler,
\* the first registered one, which always responds; app.locals.otpStorage is
\* never created, no timer is ever set, and so no code issued by one
\* implementation meets the store of the other.
C30_FirstRegisteredHandles ==
    /\ Len(Handlers("/api/send-otp", 1)) = 1
    /\ Len(Handlers("/api/verify-otp", 1)) = 1
    /\ Handlers("/api/send-otp", 1)[1] = "otpStore"
    /\ Handlers("/api/verify-otp", 1)[1] = "otpStore"
    /\ ~MapHas(locals, "otpStorage")
    /\ timers = {}
    /\ req.op # "none" => res.status \in {200, 400, 500}

\* a code was issued and then verified with success, and app.locals is still empty
C30_Witness ==
    /\ req.op = "verify-otp"
    /\ res.status = 200
    /\ hist.otp # ""
    /\ locals = {}

====
